---- MODULE Spec2Model ----
(***************************************************************************)
(* snaprecon: the screenshot pipeline of src/snaprecon/browser.py.         *)
(*                                                                         *)
(* screenshot_many runs one job (screenshot_with_semaphore) per target     *)
(* under an asyncio.Semaphore, each job inside its own BrowserManager,     *)
(* gathers the jobs with return_exceptions=True under an overall           *)
(* asyncio.wait_for, and builds the returned list from the gathered        *)
(* results.  A job is modelled by its position (pc) at the await it is     *)
(* suspended on; the environment (Playwright, the network) chooses how     *)
(* each await ends.  The interpreter is CPython >= 3.11 (setup.py,         *)
(* python_requires), where asyncio.CancelledError is a BaseException and   *)
(* is caught neither by `except Exception` nor by suppress(Exception).     *)
(***************************************************************************)
EXTENDS Integers, Sequences, FiniteSets, TLC

VARIABLES
    targets,      \* the input list: a sequence of hosts
    concurrency,  \* config.concurrency
    env,          \* how this run's awaits may end
    pc,           \* pc[i]: the await job i is suspended on
    sem_value,    \* semaphore._value
    waiters,      \* semaphore._waiters, FIFO
    attempt,      \* try_urls: what page.goto gave for each scheme of job i
    accepted,     \* try_urls: the schemes whose response passed line 117
    loc,          \* screenshot_target locals: final_url, status_code, title
    metadata,     \* targets[i].metadata
    error,        \* targets[i].error (its code)
    exit,         \* how the body of job i is leaving: return / exception / cancelled
    results,      \* the slots of asyncio.gather
    batch,        \* position of screenshot_many itself
    cancelled_at, \* how the cancelled gather found job i: "none" (not cancelled,
                  \* it was done), "waiting" at the semaphore, or "running"
    processed,    \* the list screenshot_many returned
    last,         \* how the latest await of screenshot_target ended for job i
    proc,         \* the Playwright driver, the browser and the page of job i
    discover,     \* resolve_targets_from_hosts: its input, how it ended, its result
    config,       \* the AppConfig the batch runs under
    now,          \* seconds since screenshot_many was called
    overhead,     \* seconds of them that passed while a job held its slot
                  \* outside the per-job wait_for (launching its browser)
    timer         \* timer[i]: when the page of job i was created (page), when
                  \* its per-job wait_for began (job) and when its current
                  \* await began (step)

vars == <<targets, concurrency, env, pc, sem_value, waiters, attempt, accepted,
          loc, metadata, error, exit, results, batch, cancelled_at, processed, last,
          proc, discover, config, now, overhead, timer>>

----------------------------------------------------------------------------
(* Bounds of the model *)

MaxTargets == 2

MaxConcurrency == 2

MaxHosts == 3

(* The hosts of the input lists: distinct, as delivered by discovery. *)
Hosts == <<"a.example.com", "b.example.com", "c.example.com", "d.example.com",
           "e.example.com", "f.example.com", "g.example.com", "h.example.com">>

----------------------------------------------------------------------------
(* Values *)

NoneUrl == <<"None", "None">>

Url(scheme, host) == <<scheme, host>>

NoMetadata == [final_url |-> NoneUrl, status_code |-> 0, title |-> "None",
               screenshot_path |-> "None", screenshot_size |-> 0]

(* The size of a screenshot file that was written. *)
PngBytes == 2048

(* Line 176: screenshot_path.stat().st_size if screenshot_path.exists()    *)
(* else 0, for what page.screenshot left at the path: "ok" is a written    *)
(* file, "nofile" is a return with no file at the path.                    *)
StatSize(o) == IF o = "ok" THEN PngBytes ELSE 0

NoLocals == [final_url |-> NoneUrl, status_code |-> 0, title |-> "None"]

(* What one page.goto can give: a response with a status, None, a Playwright *)
(* exception, or nothing before asyncio.wait_for gives up.                  *)
Response(s) == [kind |-> "response", status |-> s]

NoResponse == [kind |-> "none", status |-> 0]

GotoError == [kind |-> "error", status |-> 0]

GotoTimeout == [kind |-> "timeout", status |-> 0]

Unattempted == [kind |-> "unattempted", status |-> 0]

NoAttempts == [https |-> Unattempted, http |-> Unattempted]

Schemes == <<"https", "http">>

(* resolve_targets_from_hosts has not been called. *)
NoDiscovery == [hosts |-> <<>>, state |-> "idle", targets |-> <<>>]

(* No await of screenshot_target has ended yet (or its frame is gone). *)
NoStep == [step |-> "none", how |-> "none", task |-> "none"]

TaskLeftRunning(how) == IF how = "timeout" THEN "running" ELSE "done"

(* The operation an await was waiting for, once the await has ended: it    *)
(* is done when it returned or raised; on a timeout asyncio.wait_for has   *)
(* cancelled it and waited for it to end before raising TimeoutError, and  *)
(* the handlers of lines 88-92 and 99-103 cancel and await it once more.   *)
TaskAfter(how) == IF how = "timeout" THEN "cancelled" ELSE "done"

StepEnded(step, how) == [step |-> step, how |-> how, task |-> TaskAfter(how)]

(* BrowserManager.__init__: self.playwright = None, self.browser = None;   *)
(* the job has no page before line 206.                                    *)
NoProcesses == [driver |-> "none", browser |-> "none", page |-> "none",
                mode |-> "none"]

Jobs == 1..Len(targets)

(* The per-job wait_for of line 209 has not begun. *)
NoTimer == [page |-> 0, job |-> 0, step |-> 0]

(* AppConfig as its class defines it (config.py, lines 28-56): the fields  *)
(* the batch and apply_scan_profile_defaults read, with their defaults;    *)
(* explicit_fields is _explicit_fields (line 17).  Two fields record what  *)
(* has been done to the object: stage is the last step of from_env /       *)
(* from_cli it went through, applied lists the profiles whose defaults     *)
(* apply_scan_profile_defaults has applied to it, in order.                *)
DefaultConfig ==
    [timeout_ms |-> 30000,
     headless |-> TRUE,
     scan_profile |-> "balanced",
     dry_run |-> FALSE,
     wappalyzer_enabled |-> FALSE,
     wappalyzer_scan_type |-> "balanced",
     wappalyzer_threads |-> 3,
     explicit_fields |-> {},
     stage |-> "constructed",
     applied |-> <<>>]


SentinelStatus == 500

(* Working with the boundary of line 117 moved: 400 accepted, 401 and 403  *)
(* not.                                                                    *)
WorkingUpTo400(r) ==
    /\ r.kind = "response"
    /\ r.status <= 400

(* try_urls line 117: `response and (response.status < 400 or             *)
(* response.status in (401, 403))`.                                        *)
Working(r) ==
    /\ r.kind = "response"
    /\ (r.status < 400 \/ r.status \in {401, 403})

(* locked() without the test of the counter. *)
lockedOnlyWhenQueued == Len(waiters) > 0

(* Semaphore.locked(): no free slot, or somebody is already queued. *)
locked == sem_value = 0 \/ Len(waiters) > 0

(* Positions at which a job is inside `async with semaphore`. *)
HoldingPcs == {"pw_start", "launch", "create_page", "page_setup", "https_goto",
               "https_idle",
               "http_goto", "http_idle", "title", "screenshot", "page_close",
               "browser_close", "pw_stop"}

(* Positions inside try_urls, and inside screenshot_target as a whole. *)
NavPcs == {"https_goto", "https_idle", "http_goto", "http_idle"}

CapturePcs == NavPcs \cup {"title", "screenshot"}

SchemeOf(p) == IF p \in {"https_goto", "https_idle"} THEN "https" ELSE "http"

AllDoneNeedsJob == Len(targets) > 0 /\ \A i \in Jobs : pc[i] = "done"

AllDone == \A i \in Jobs : pc[i] = "done"

----------------------------------------------------------------------------
(* The environments: the ways an await may end in a run.  The scheduler    *)
(* specification keeps the outcomes that decide how a job leaves its slot; *)
(* the one-job specification has every outcome of every await of           *)
(* screenshot_target; the try_urls specification uses the statuses around  *)
(* every boundary of line 117.                                             *)
(* The awaits of a job outside screenshot_target, each of which may raise: *)
(* lines 31, 44-47, 59, 61-67, 228, 53 and 55.                             *)
Steps == {"pw_start", "launch", "create_page", "page_setup", "page_close",
          "browser_close", "pw_stop"}

SchedulerEnv ==
    [goto  |-> {Response(200), GotoTimeout},
     idle  |-> {"ok", "timeout"},
     title |-> {"ok"},
     shot  |-> {"ok", "timeout", "error"},
     fail  |-> {"launch", "page_close"},
     timed |-> FALSE]

OneJobEnv ==
    [goto  |-> {Response(200), Response(403), Response(404), GotoError,
                GotoTimeout},
     idle  |-> {"ok", "timeout", "error"},
     title |-> {"ok", "timeout", "error"},
     shot  |-> {"ok", "nofile", "timeout", "error"},
     fail  |-> Steps,
     timed |-> FALSE]

TryUrlsEnv ==
    [goto  |-> {Response(s) : s \in {200, 301, 399, 400, 401, 403, 404, 500}}
                 \cup {NoResponse, GotoError, GotoTimeout},
     idle  |-> {"ok", "timeout", "error"},
     title |-> {"ok"},
     shot  |-> {"ok"},
     fail  |-> {},
     timed |-> FALSE]

(* Sites that answer and capture at once, browsers whose close() may       *)
(* raise: what a failed teardown leaves behind for the jobs that follow.   *)
TeardownEnv ==
    [goto  |-> {Response(200)},
     idle  |-> {"ok"},
     title |-> {"ok"},
     shot  |-> {"ok"},
     fail  |-> {"browser_close"},
     timed |-> FALSE]

(* Slow sites under a clock: every navigation is answered, by a page or by *)
(* a 404, before its timeout; the title and the screenshot never come, so  *)
(* that a job ends by the 10 s cap of its screenshot or by its per-job     *)
(* timeout, whichever the clock reaches first.                             *)
DeadlineEnv ==
    [goto  |-> {Response(200), Response(404)},
     idle  |-> {"ok"},
     title |-> {"timeout"},
     shot  |-> {"timeout"},
     fail  |-> {},
     timed |-> TRUE]

----------------------------------------------------------------------------
(* Init: screenshot_many has created the semaphore and the coroutines and  *)
(* is about to await the gather (lines 201-239).                           *)

Init ==
    /\ \E n \in 0..MaxTargets : targets = SubSeq(Hosts, 1, n)
    /\ concurrency \in 1..MaxConcurrency
    /\ env = SchedulerEnv
    /\ pc = [i \in Jobs |-> "pending"]
    /\ sem_value = concurrency
    /\ waiters = <<>>
    /\ attempt = [i \in Jobs |-> NoAttempts]
    /\ accepted = [i \in Jobs |-> {}]
    /\ loc = [i \in Jobs |-> NoLocals]
    /\ metadata = [i \in Jobs |-> NoMetadata]
    /\ error = [i \in Jobs |-> "None"]
    /\ exit = [i \in Jobs |-> "none"]
    /\ results = [i \in Jobs |-> "pending"]
    /\ batch = "gather"
    /\ cancelled_at = [i \in Jobs |-> "none"]
    /\ processed = <<>>
    /\ last = [i \in Jobs |-> NoStep]
    /\ proc = [i \in Jobs |-> NoProcesses]
    /\ discover = NoDiscovery
    /\ config = DefaultConfig
    /\ now = 0
    /\ overhead = 0
    /\ timer = [i \in Jobs |-> NoTimer]

----------------------------------------------------------------------------
(* Time.  The specifications with env.timed have a clock; in the others    *)
(* `now` stays 0 and an await may end in any of the ways the environment   *)
(* allows.                                                                 *)

(* Line 114: timeout_seconds = timeout_ms / 1000.0. *)
NavTimeoutS(cfg) == cfg.timeout_ms \div 1000

(* Line 120, line 150 and line 165: the caps of the network-idle wait, of  *)
(* page.title() and of page.screenshot(), in seconds.                      *)
IdleTimeoutS == 5

TitleTimeoutS == 5

ShotTimeoutS == 10

PerJobBufferS == 10

OverallBufferS == 60

(* Line 211: timeout = (config.timeout_ms / 1000.0) + 10. *)
PerJobTimeoutS(cfg) == NavTimeoutS(cfg) + PerJobBufferS

(* The overall deadline of the batch would be as long as its jobs may run  *)
(* one after the other.                                                    *)
OverallTimeoutPerJobS(cfg, n) == PerJobTimeoutS(cfg) * n + OverallBufferS

(* Line 235: (config.timeout_ms / 1000.0 * len(targets)) + 60. *)
OverallTimeoutS(cfg, n) == NavTimeoutS(cfg) * n + OverallBufferS

(* The clock advances by the shortest timeout of the code; the configured  *)
(* timeouts explored are multiples of it.                                  *)
TickS == IdleTimeoutS

(* The cap asyncio.wait_for puts on the await at position p. *)
StepLimitS(p) ==
    CASE p \in {"https_goto", "http_goto"} -> NavTimeoutS(config)
      [] p \in {"https_idle", "http_idle"} -> IdleTimeoutS
      [] p = "title" -> TitleTimeoutS
      [] OTHER -> ShotTimeoutS

(* The await of job i, begun at timer[i].step, may end now in the way o:   *)
(* by the asyncio timeout exactly when its cap is reached, in any other    *)
(* way before that.                                                        *)
EndsNow(i, o) ==
    env.timed =>
        IF o = "timeout"
        THEN now - timer[i].step = StepLimitS(pc[i])
        ELSE now - timer[i].step < StepLimitS(pc[i])

(* Line 209-212: the wait_for around screenshot_target, begun at           *)
(* timer[i].job, expires now.                                              *)
JobExpiresNow(i) == env.timed => now - timer[i].job = PerJobTimeoutS(config)

(* Line 235-238: the wait_for around gather, begun when screenshot_many    *)
(* was called, expires now.                                                *)
DeadlineExpiresNow ==
    env.timed => now = OverallTimeoutS(config, Len(targets))

(* A new await of job i begins now. *)
NextStep(i) == timer' = [timer EXCEPT ![i].step = now]

(* Line 206: create_page has returned the page of job i. *)
PageCreated(i) == timer' = [timer EXCEPT ![i].page = now]

(* The per-job wait_for would count from the moment the job began to       *)
(* launch its browser.                                                     *)
JobStartsAtLaunch(i) ==
    timer' = [timer EXCEPT ![i].job = timer[i].step, ![i].step = now]

(* Line 209: the per-job wait_for begins, and with it the first await of   *)
(* screenshot_target.                                                      *)
JobStarts(i) == timer' = [timer EXCEPT ![i].job = now, ![i].step = now]

----------------------------------------------------------------------------
(* Leaving `async with semaphore` (line 204): Semaphore.release() and      *)
(* _wake_up_next(): the slot goes to the first waiter, if any.  The job's  *)
(* task ends and gather records how: its return value (the target), the    *)
(* exception it raised, or its cancellation.                               *)

ReleaseSlotNoWake(i) ==
    /\ sem_value' = sem_value + 1
    /\ waiters' = waiters
    /\ pc' = [pc EXCEPT ![i] = "done"]

ReleaseSlot(i) ==
    IF waiters = <<>>
    THEN /\ sem_value' = sem_value + 1
         /\ waiters' = waiters
         /\ pc' = [pc EXCEPT ![i] = "done"]
    ELSE /\ sem_value' = sem_value
         /\ waiters' = Tail(waiters)
         /\ pc' = [pc EXCEPT ![i] = "done", ![Head(waiters)] = "pw_start"]

TaskResult(x) ==
    CASE x = "return" -> "target"
      [] x = "exception" -> "exception"
      [] OTHER -> "cancelled"

EndJobFailFast(i, x) ==
    /\ ReleaseSlot(i)
    /\ results' = [j \in Jobs |->
                     IF j = i THEN TaskResult(x)
                     ELSE IF x # "return" /\ results[j] = "pending"
                          THEN "cancelled" ELSE results[j]]
    /\ exit' = [exit EXCEPT ![i] = "none"]

EndJob(i, x) ==
    /\ ReleaseSlot(i)
    /\ results' = [results EXCEPT ![i] = TaskResult(x)]
    /\ exit' = [exit EXCEPT ![i] = "none"]

(* The tasks of gather start in input order; each runs to its first real   *)
(* suspension: Semaphore.acquire() returns at once when not locked(),      *)
(* otherwise the job queues behind the earlier waiters.                    *)
InAnyOrder(i) == TRUE

(* Line 231 and 236: gather wraps the coroutines in tasks in list order,   *)
(* and the event loop starts tasks in the order of their creation.         *)
InInputOrder(i) == \A j \in Jobs : j < i => pc[j] # "pending"

Start(i) ==
    /\ batch = "gather"
    /\ pc[i] = "pending"
    /\ InInputOrder(i)
    /\ IF ~locked
       THEN /\ sem_value' = sem_value - 1
            /\ pc' = [pc EXCEPT ![i] = "pw_start"]
            /\ waiters' = waiters
       ELSE /\ waiters' = Append(waiters, i)
            /\ pc' = [pc EXCEPT ![i] = "waiting"]
            /\ sem_value' = sem_value
    /\ UNCHANGED <<targets, concurrency, env, discover, config, now, overhead,
                   timer, attempt, accepted, loc, metadata,
                   error, exit, results, batch, cancelled_at,
                   processed, last, proc>>

(* What BrowserManager holds after line 31 (self.playwright), after lines  *)
(* 44-47 (self.browser), after line 53 (browser.close() returned) and      *)
(* after line 55 (playwright.stop() returned).                            *)
Started(p) == [p EXCEPT !.driver = "live"]

LaunchedNothing(p) == p

(* Line 45: chromium.launch(headless=True, ...). *)
LaunchMode == "headless"

Launched(p) == [p EXCEPT !.browser = "live", !.mode = LaunchMode]

Closed(p) == [p EXCEPT !.browser = "closed"]

Stopped(p) == [p EXCEPT !.driver = "closed"]

(* create_page, line 59 (new_page() returned), and `await page.close()`,   *)
(* line 228, once it has returned.                                         *)
PageOpened(p) == [p EXCEPT !.page = "open"]

PageClosed(p) == [p EXCEPT !.page = "closed"]

(* BrowserManager.__aenter__, line 31: async_playwright().start().  A      *)
(* failure inside __aenter__ leaves the `async with` without __aexit__.    *)
PwStart(i) ==
    /\ pc[i] = "pw_start"
    /\ \/ /\ pc' = [pc EXCEPT ![i] = "launch"]
          /\ proc' = [proc EXCEPT ![i] = Started(@)]
          /\ NextStep(i)
          /\ UNCHANGED <<sem_value, waiters, results, exit>>
       \/ /\ "pw_start" \in env.fail
          /\ EndJob(i, "exception")
          /\ UNCHANGED <<proc, timer>>
    /\ UNCHANGED <<targets, concurrency, env, discover, config, now, overhead,
                   attempt, accepted, loc, metadata,
                   error, batch, cancelled_at,
                   processed, last>>

(* BrowserManager.__aenter__, lines 44-47: chromium.launch(). *)
Launch(i) ==
    /\ pc[i] = "launch"
    /\ \/ /\ pc' = [pc EXCEPT ![i] = "create_page"]
          /\ proc' = [proc EXCEPT ![i] = Launched(@)]
          /\ UNCHANGED <<sem_value, waiters, results, exit>>
       \/ /\ "launch" \in env.fail
          /\ EndJob(i, "exception")
          /\ proc' = proc
    /\ UNCHANGED <<targets, concurrency, env, discover, config, now, overhead,
                   timer, attempt, accepted, loc, metadata,
                   error, batch, cancelled_at,
                   processed, last>>

(* Line 206: create_page() is awaited before the try, so its failure skips *)
(* page.close() and goes straight to __aexit__.  create_page, line 59:     *)
(* browser.new_page().                                                     *)
CreatePage(i) ==
    /\ pc[i] = "create_page"
    /\ \/ /\ pc' = [pc EXCEPT ![i] = "page_setup"]
          /\ proc' = [proc EXCEPT ![i] = PageOpened(@)]
          /\ exit' = exit
          /\ PageCreated(i)
       \/ /\ "create_page" \in env.fail
          /\ pc' = [pc EXCEPT ![i] = "browser_close"]
          /\ UNCHANGED <<proc, timer>>
          /\ exit' = [exit EXCEPT ![i] = "exception"]
    /\ UNCHANGED <<targets, concurrency, env, discover, config, now, overhead,
                   sem_value, waiters, attempt,
                   accepted, loc, metadata, error, results, batch, cancelled_at,
                   processed, last>>

(* create_page, lines 61-72: set_extra_http_headers, set_viewport_size,    *)
(* set_default_timeout on the new page.  A failure here leaves             *)
(* create_page with the page open and no reference to it in the job.       *)
PageSetup(i) ==
    /\ pc[i] = "page_setup"
    /\ \/ /\ pc' = [pc EXCEPT ![i] = "https_goto"]
          /\ exit' = exit
          /\ JobStarts(i)
       \/ /\ "page_setup" \in env.fail
          /\ pc' = [pc EXCEPT ![i] = "browser_close"]
          /\ exit' = [exit EXCEPT ![i] = "exception"]
          /\ timer' = timer
    /\ UNCHANGED <<targets, concurrency, env, discover, config, now, overhead,
                   sem_value, waiters, attempt,
                   accepted, loc, metadata, error, results, batch, cancelled_at,
                   processed, last, proc>>

----------------------------------------------------------------------------
(* try_urls (lines 75-139) *)

(* Lines 126-136 and 138-139: a failed attempt goes on to the next entry   *)
(* of urls_to_try; after the last one the function returns                 *)
(* (urls_to_try[-1], 500).                                                 *)
NextAttempt(i, s) ==
    IF s = "https"
    THEN /\ pc' = [pc EXCEPT ![i] = "http_goto"]
         /\ loc' = loc
    ELSE /\ pc' = [pc EXCEPT ![i] = "title"]
         /\ loc' = [loc EXCEPT ![i] = [final_url |-> Url("http", targets[i]),
                                       status_code |-> SentinelStatus,
                                       title |-> "None"]]

(* safe_goto / safe_wait_for_load_state, lines 88-92 and 99-103: when      *)
(* asyncio.wait_for times out it has already cancelled `task`; the handler *)
(* then awaits the cancelled task, which raises CancelledError, and        *)
(* suppress(Exception) does not suppress it.  CancelledError passes every  *)
(* `except asyncio.TimeoutError` and `except Exception` on the way out     *)
(* (lines 121, 126, 129, 189, 213, 220) and reaches the finally of         *)
(* line 227.                                                               *)
CancelledErrorEscapes(i) ==
    /\ pc' = [pc EXCEPT ![i] = "page_close"]
    /\ exit' = [exit EXCEPT ![i] = "cancelled"]
    /\ loc' = loc

(* Line 114: response = await safe_goto(url, ...), then line 117. *)
Goto(i) ==
    /\ pc[i] \in {"https_goto", "http_goto"}
    /\ LET s == SchemeOf(pc[i]) IN
       \E r \in env.goto :
          /\ EndsNow(i, r.kind)
          /\ NextStep(i)
          /\ attempt' = [attempt EXCEPT ![i][s] = r]
          /\ last' = [last EXCEPT ![i] =
                        StepEnded("goto", IF r.kind \in {"timeout", "error"}
                                          THEN r.kind ELSE "ok")]
          /\ CASE r.kind = "timeout" ->
                    /\ CancelledErrorEscapes(i)
                    /\ accepted' = accepted
               [] r.kind = "error" ->
                    /\ NextAttempt(i, s)
                    /\ UNCHANGED <<accepted, exit>>
               [] OTHER ->
                    IF Working(r)
                    THEN /\ accepted' = [accepted EXCEPT ![i] = @ \cup {s}]
                         /\ pc' = [pc EXCEPT ![i] =
                                     IF s = "https" THEN "https_idle" ELSE "http_idle"]
                         /\ UNCHANGED <<loc, exit>>
                    ELSE /\ NextAttempt(i, s)
                         /\ UNCHANGED <<accepted, exit>>
    /\ UNCHANGED <<targets, concurrency, env, discover, config, now, overhead,
                   sem_value, waiters, metadata,
                   error, results, batch, cancelled_at,
                   processed, proc>>

(* Lines 119-124: the network-idle wait after an accepted response.  It    *)
(* ends normally (return url, status), by the asyncio timeout, or by a     *)
(* Playwright exception, which the handler of line 129 turns into          *)
(* `continue`.                                                             *)
Idle(i) ==
    /\ pc[i] \in {"https_idle", "http_idle"}
    /\ LET s == SchemeOf(pc[i]) IN
       \E o \in env.idle :
          /\ EndsNow(i, o)
          /\ NextStep(i)
          /\ last' = [last EXCEPT ![i] = StepEnded("idle", o)]
          /\ CASE o = "ok" ->
                    /\ pc' = [pc EXCEPT ![i] = "title"]
                    /\ loc' = [loc EXCEPT ![i] =
                                 [final_url |-> Url(s, targets[i]),
                                  status_code |-> attempt[i][s].status,
                                  title |-> "None"]]
                    /\ exit' = exit
               [] o = "timeout" -> CancelledErrorEscapes(i)
               [] OTHER ->
                    /\ NextAttempt(i, s)
                    /\ exit' = exit
    /\ UNCHANGED <<targets, concurrency, env, discover, config, now, overhead,
                   sem_value, waiters, attempt,
                   accepted, metadata, error, results, batch, cancelled_at,
                   processed, proc>>

----------------------------------------------------------------------------
(* screenshot_target (lines 142-196) *)

(* Lines 220-226, the handler of the per-job wrapper, as it would run if   *)
(* an Exception left screenshot_target.                                    *)
ScreenshotErrorInWrapper(i) ==
    /\ error' = [error EXCEPT ![i] = "SCREENSHOT_ERROR"]
    /\ pc' = [pc EXCEPT ![i] = "page_close"]
    /\ exit' = [exit EXCEPT ![i] = "return"]
    /\ loc' = [loc EXCEPT ![i] = NoLocals]

(* Lines 189-194: any Exception of the sequence becomes SCREENSHOT_FAILED  *)
(* and the function returns the target; the whole body of                  *)
(* screenshot_target is inside this try, so no Exception leaves it.        *)
ScreenshotFailed(i) ==
    /\ error' = [error EXCEPT ![i] = "SCREENSHOT_FAILED"]
    /\ pc' = [pc EXCEPT ![i] = "page_close"]
    /\ exit' = [exit EXCEPT ![i] = "return"]
    /\ loc' = [loc EXCEPT ![i] = NoLocals]

TitleTimeoutFails(i) == ScreenshotFailed(i)

(* Lines 152-153: `except asyncio.TimeoutError: title = "Title timeout"`,  *)
(* and the sequence goes on to the screenshot.                             *)
TitleTimeout(i) ==
    /\ loc' = [loc EXCEPT ![i].title = "Title timeout"]
    /\ pc' = [pc EXCEPT ![i] = "screenshot"]
    /\ UNCHANGED <<error, exit>>

(* Lines 149-153: the title fetch under its own wait_for. *)
Title(i) ==
    /\ pc[i] = "title"
    /\ \E o \in env.title :
          /\ EndsNow(i, o)
          /\ NextStep(i)
          /\ last' = [last EXCEPT ![i] = StepEnded("title", o)]
          /\ CASE o = "ok" ->
                    /\ loc' = [loc EXCEPT ![i].title = "Page title"]
                    /\ pc' = [pc EXCEPT ![i] = "screenshot"]
                    /\ UNCHANGED <<error, exit>>
               [] o = "timeout" -> TitleTimeout(i)
               [] OTHER -> ScreenshotFailed(i)
    /\ attempt' = [attempt EXCEPT ![i] = NoAttempts]
    /\ accepted' = [accepted EXCEPT ![i] = {}]
    /\ UNCHANGED <<targets, concurrency, env, discover, config, now, overhead,
                   sem_value, waiters, metadata,
                   results, batch, cancelled_at,
                   processed, proc>>

(* Lines 179-185 and 196: target.metadata = Metadata(...), return target. *)
RecordMetadata(i, o) ==
    /\ metadata' = [metadata EXCEPT ![i] =
                      [final_url |-> loc[i].final_url,
                       status_code |-> loc[i].status_code,
                       title |-> loc[i].title,
                       screenshot_path |-> targets[i],
                       screenshot_size |-> StatSize(o)]]
    /\ pc' = [pc EXCEPT ![i] = "page_close"]
    /\ exit' = [exit EXCEPT ![i] = "return"]
    /\ loc' = [loc EXCEPT ![i] = NoLocals]

CaptureTimeoutFallsThrough(i) ==
    /\ error' = [error EXCEPT ![i] = "SCREENSHOT_CAPTURE_TIMEOUT"]
    /\ RecordMetadata(i, "timeout")

(* Lines 167-173: the handler of the 10 s cap: it sets the error and       *)
(* returns the target at once.                                             *)
CaptureTimeout(i) ==
    /\ error' = [error EXCEPT ![i] = "SCREENSHOT_CAPTURE_TIMEOUT"]
    /\ pc' = [pc EXCEPT ![i] = "page_close"]
    /\ exit' = [exit EXCEPT ![i] = "return"]
    /\ loc' = [loc EXCEPT ![i] = NoLocals]
    /\ metadata' = metadata

(* Lines 156-187: the screenshot under its 10 s wait_for, then the         *)
(* metadata; lines 167-173 on its timeout.  page.screenshot may return     *)
(* with the file written ("ok") or with no file at the path ("nofile").    *)
Screenshot(i) ==
    /\ pc[i] = "screenshot"
    /\ \E o \in env.shot :
          /\ EndsNow(i, o)
          /\ last' = [last EXCEPT ![i] = StepEnded("screenshot", o)]
          /\ CASE o \in {"ok", "nofile"} ->
                    /\ RecordMetadata(i, o)
                    /\ error' = error
               [] o = "timeout" -> CaptureTimeout(i)
               [] OTHER ->
                    /\ ScreenshotFailed(i)
                    /\ metadata' = metadata
    /\ UNCHANGED <<targets, concurrency, env, discover, config, now, overhead,
                   timer, sem_value, waiters, attempt,
                   accepted, results, batch, cancelled_at,
                   processed, proc>>

----------------------------------------------------------------------------
(* screenshot_with_semaphore (lines 203-228) *)

(* Lines 209-219: the wait_for around screenshot_target expires after      *)
(* timeout_ms + 10 s, cancels screenshot_target and the handler records    *)
(* SCREENSHOT_TIMEOUT.  It cannot expire during the https attempt: that    *)
(* goto is cut at timeout_ms by safe_goto and its idle wait at 5 s, so the *)
(* job is then at most timeout_ms + 5 s old.                               *)
PerJobTimeout(i) ==
    /\ pc[i] \in CapturePcs \ {"https_goto", "https_idle"}
    /\ JobExpiresNow(i)
    /\ error' = [error EXCEPT ![i] = "SCREENSHOT_TIMEOUT"]
    /\ pc' = [pc EXCEPT ![i] = "page_close"]
    /\ exit' = [exit EXCEPT ![i] = "return"]
    /\ loc' = [loc EXCEPT ![i] = NoLocals]
    /\ attempt' = [attempt EXCEPT ![i] = NoAttempts]
    /\ accepted' = [accepted EXCEPT ![i] = {}]
    /\ last' = [last EXCEPT ![i] = NoStep]
    /\ UNCHANGED <<targets, concurrency, env, discover, config, now, overhead,
                   timer, sem_value, waiters, metadata,
                   results, batch, cancelled_at,
                   processed, proc>>

(* Lines 227-228: `finally: await page.close()`.  An exception raised here *)
(* replaces whatever the try block was returning or raising.               *)
PageClose(i) ==
    /\ pc[i] = "page_close"
    /\ pc' = [pc EXCEPT ![i] = "browser_close"]
    /\ \/ /\ exit' = exit
          /\ proc' = [proc EXCEPT ![i] = PageClosed(@)]
       \/ /\ "page_close" \in env.fail
          /\ exit' = [exit EXCEPT ![i] = "exception"]
          /\ proc' = proc
    /\ attempt' = [attempt EXCEPT ![i] = NoAttempts]
    /\ accepted' = [accepted EXCEPT ![i] = {}]
    /\ last' = [last EXCEPT ![i] = NoStep]
    /\ timer' = [timer EXCEPT ![i] = NoTimer]
    /\ UNCHANGED <<targets, concurrency, env, discover, config, now, overhead,
                   sem_value, waiters, loc, metadata,
                   error, results, batch, cancelled_at,
                   processed>>

(* BrowserManager.__aexit__, lines 52-53: `if self.browser: await          *)
(* self.browser.close()`.  When it raises, line 55 is not reached and the  *)
(* exception leaves both `async with`: __aexit__ returns None, so nothing  *)
(* is swallowed.                                                           *)
BrowserClose(i) ==
    /\ pc[i] = "browser_close"
    /\ \/ /\ pc' = [pc EXCEPT ![i] = "pw_stop"]
          /\ proc' = [proc EXCEPT ![i] = Closed(@)]
          /\ UNCHANGED <<sem_value, waiters, results, exit>>
       \/ /\ "browser_close" \in env.fail
          /\ EndJob(i, "exception")
          /\ proc' = proc
    /\ UNCHANGED <<targets, concurrency, env, discover, config, now, overhead,
                   timer, attempt, accepted, loc, metadata,
                   error, batch, cancelled_at,
                   processed, last>>

(* BrowserManager.__aexit__, lines 54-55: `if self.playwright: await       *)
(* self.playwright.stop()`, then the release of the semaphore.             *)
PwStop(i) ==
    /\ pc[i] = "pw_stop"
    /\ \/ /\ EndJob(i, exit[i])
          /\ proc' = [proc EXCEPT ![i] = Stopped(@)]
       \/ /\ "pw_stop" \in env.fail
          /\ EndJob(i, "exception")
          /\ proc' = proc
    /\ UNCHANGED <<targets, concurrency, env, discover, config, now, overhead,
                   timer, attempt, accepted, loc, metadata,
                   error, batch, cancelled_at,
                   processed, last>>

----------------------------------------------------------------------------
(* screenshot_many (lines 199-269) *)

(* Where the CancelledError thrown into a job by the cancelled gather      *)
(* takes it: a waiter leaves the queue, a job inside __aenter__ leaves     *)
(* both `async with` at once, a job past __aenter__ runs its finally       *)
(* and/or __aexit__ first.                                                 *)
CancelledPc(p) ==
    CASE p \in {"waiting", "pw_start", "launch", "browser_close", "pw_stop",
                "done"} -> "done"
      [] p \in {"create_page", "page_setup", "page_close"} -> "browser_close"
      [] OTHER -> "page_close"

(* Lines 236-240: the overall wait_for expires while the gather is         *)
(* pending.  wait_for cancels the gather, the gather cancels every child   *)
(* that is not done, and wait_for raises TimeoutError only once the gather *)
(* has finished.  Every task has started by then (they all start in the    *)
(* first pass of the event loop, the deadline is at least 60 s away).      *)
OverallTimeout ==
    /\ batch = "gather"
    /\ \A i \in Jobs : pc[i] # "pending"
    /\ ~AllDone
    /\ DeadlineExpiresNow
    /\ timer' = [i \in Jobs |-> NoTimer]
    /\ batch' = "cancelling"
    /\ pc' = [i \in Jobs |-> CancelledPc(pc[i])]
    /\ waiters' = <<>>
    /\ sem_value' = sem_value + Cardinality({i \in Jobs :
                        pc[i] \in {"pw_start", "launch", "browser_close",
                                  "pw_stop"}})
    /\ exit' = [i \in Jobs |->
                  IF pc[i] \in HoldingPcs /\ CancelledPc(pc[i]) # "done"
                  THEN "cancelled" ELSE "none"]
    /\ results' = [i \in Jobs |->
                     IF pc[i] # "done" /\ CancelledPc(pc[i]) = "done"
                     THEN "cancelled" ELSE results[i]]
    /\ attempt' = [i \in Jobs |-> NoAttempts]
    /\ accepted' = [i \in Jobs |-> {}]
    /\ loc' = [i \in Jobs |-> NoLocals]
    /\ cancelled_at' = [i \in Jobs |->
                          CASE pc[i] = "done" -> "none"
                            [] pc[i] = "waiting" -> "waiting"
                            [] OTHER -> "running"]
    /\ last' = [i \in Jobs |-> NoStep]
    /\ UNCHANGED <<targets, concurrency, env, discover, config, now, overhead,
                   metadata, error, processed, proc>>

(* Lines 248-254: the back-fill the handler means to do. *)
Backfill(e) == [i \in Jobs |-> IF e[i] = "None" THEN "OVERALL_TIMEOUT" ELSE e[i]]

(* Line 258-267: one element of processed_targets.  Every job returns the  *)
(* target it was given; an Exception is replaced by targets[i]; anything   *)
(* else gather delivered is appended as it is.                             *)
ProcessedItem(i, r) ==
    IF r = "cancelled"
    THEN [kind |-> "CancelledError", index |-> 0]
    ELSE [kind |-> "Target", index |-> i]

(* Lines 240-254: the handler of the overall timeout.  `tasks` holds       *)
(* coroutine objects (line 231), so `task.done()` of line 244 raises       *)
(* AttributeError on the first element and the handler never reaches the   *)
(* back-fill; with no element the loop body is skipped.                    *)
TimeoutHandler ==
    /\ batch = "cancelling"
    /\ AllDone
    /\ IF Len(targets) > 0
       THEN /\ batch' = "raised"
            /\ UNCHANGED <<error, processed>>
       ELSE /\ batch' = "returned"
            /\ error' = Backfill(error)
            /\ processed' = [i \in Jobs |-> ProcessedItem(i, "target")]
    /\ UNCHANGED <<targets, concurrency, env, discover, config, now, overhead,
                   timer, pc, sem_value, waiters, attempt,
                   accepted, loc, metadata, exit, results, cancelled_at, last,
                   proc>>

(* Lines 256-269: the pass over the gathered results. *)
Aggregate ==
    /\ batch = "gather"
    /\ AllDone
    /\ error' = [i \in Jobs |->
                   IF results[i] = "exception" THEN "PROCESSING_ERROR" ELSE error[i]]
    /\ processed' = [i \in Jobs |-> ProcessedItem(i, results[i])]
    /\ batch' = "returned"
    /\ UNCHANGED <<targets, concurrency, env, discover, config, now, overhead,
                   timer, pc, sem_value, waiters, attempt,
                   accepted, loc, metadata, exit, results, cancelled_at, last,
                   proc>>

(* cli.py, lines 208-209 (and 159-160): the counts the caller reports,     *)
(* taken over the list screenshot_many returned.                           *)
success_count ==
    Cardinality({k \in 1..Len(processed) :
                    metadata[processed[k].index].screenshot_path # "None"})

error_count ==
    Cardinality({k \in 1..Len(processed) : error[processed[k].index] # "None"})

----------------------------------------------------------------------------
Next ==
    \/ \E i \in Jobs : Start(i)
    \/ \E i \in Jobs : PwStart(i)
    \/ \E i \in Jobs : Launch(i)
    \/ \E i \in Jobs : CreatePage(i)
    \/ \E i \in Jobs : PageSetup(i)
    \/ \E i \in Jobs : Goto(i)
    \/ \E i \in Jobs : Idle(i)
    \/ \E i \in Jobs : Title(i)
    \/ \E i \in Jobs : Screenshot(i)
    \/ \E i \in Jobs : PerJobTimeout(i)
    \/ \E i \in Jobs : PageClose(i)
    \/ \E i \in Jobs : BrowserClose(i)
    \/ \E i \in Jobs : PwStop(i)
    \/ OverallTimeout
    \/ TimeoutHandler
    \/ Aggregate

Spec == Init /\ [][Next]_vars

(* One job through screenshot_many, with every outcome of every await. *)
InitOneJob ==
    /\ targets = SubSeq(Hosts, 1, 1)
    /\ concurrency = 1
    /\ config \in {[DefaultConfig EXCEPT !.headless = h] : h \in BOOLEAN}
    /\ env = OneJobEnv
    /\ pc = [i \in Jobs |-> "pending"]
    /\ sem_value = concurrency
    /\ waiters = <<>>
    /\ attempt = [i \in Jobs |-> NoAttempts]
    /\ accepted = [i \in Jobs |-> {}]
    /\ loc = [i \in Jobs |-> NoLocals]
    /\ metadata = [i \in Jobs |-> NoMetadata]
    /\ error = [i \in Jobs |-> "None"]
    /\ exit = [i \in Jobs |-> "none"]
    /\ results = [i \in Jobs |-> "pending"]
    /\ batch = "gather"
    /\ cancelled_at = [i \in Jobs |-> "none"]
    /\ processed = <<>>
    /\ last = [i \in Jobs |-> NoStep]
    /\ proc = [i \in Jobs |-> NoProcesses]
    /\ discover = NoDiscovery
    /\ now = 0
    /\ overhead = 0
    /\ timer = [i \in Jobs |-> NoTimer]

SpecOneJob == InitOneJob /\ [][Next]_vars

(* The batch under a clock.  Time passes only while the job holding the    *)
(* slot stands at an await that can take time: the launch of its browser   *)
(* (up to MaxLaunchTicks ticks) and the awaits of screenshot_target, each  *)
(* up to its own cap and all of them up to the per-job timeout.            *)
MaxBatch == 7

MaxLaunchTicks == 1

(* timeout_ms of the batches explored: 5 s and 10 s. *)
DeadlineTimeouts == {5000, 10000}

TimeoutAllowed(p) ==
    CASE p \in {"https_goto", "http_goto"} -> GotoTimeout \in env.goto
      [] p \in {"https_idle", "http_idle"} -> "timeout" \in env.idle
      [] p = "title" -> "timeout" \in env.title
      [] OTHER -> "timeout" \in env.shot

CanWait(i) ==
    CASE pc[i] \in CapturePcs ->
             /\ now - timer[i].job < PerJobTimeoutS(config)
             /\ now - timer[i].step < StepLimitS(pc[i])
             /\ now + TickS - timer[i].step = StepLimitS(pc[i])
                   => \/ TimeoutAllowed(pc[i])
                      \/ now + TickS - timer[i].job = PerJobTimeoutS(config)
      [] pc[i] = "launch" -> now - timer[i].step < MaxLaunchTicks * TickS
      [] pc[i] \in {"waiting", "done"} -> TRUE
      [] OTHER -> FALSE

Tick ==
    /\ env.timed
    /\ batch = "gather"
    /\ ~AllDone
    /\ now < OverallTimeoutS(config, Len(targets))
    /\ \A i \in Jobs : CanWait(i)
    /\ now' = now + TickS
    /\ overhead' = IF \E i \in Jobs : pc[i] = "launch"
                   THEN overhead + TickS ELSE overhead
    /\ UNCHANGED <<targets, concurrency, env, discover, config, timer, pc,
                   sem_value, waiters, attempt, accepted, loc, metadata, error,
                   exit, results, batch, cancelled_at, processed, last, proc>>

InitDeadline ==
    /\ \E n \in 1..MaxBatch : targets = SubSeq(Hosts, 1, n)
    /\ concurrency = 1
    /\ env = DeadlineEnv
    /\ pc = [i \in Jobs |-> "pending"]
    /\ sem_value = concurrency
    /\ waiters = <<>>
    /\ attempt = [i \in Jobs |-> NoAttempts]
    /\ accepted = [i \in Jobs |-> {}]
    /\ loc = [i \in Jobs |-> NoLocals]
    /\ metadata = [i \in Jobs |-> NoMetadata]
    /\ error = [i \in Jobs |-> "None"]
    /\ exit = [i \in Jobs |-> "none"]
    /\ results = [i \in Jobs |-> "pending"]
    /\ batch = "gather"
    /\ cancelled_at = [i \in Jobs |-> "none"]
    /\ processed = <<>>
    /\ last = [i \in Jobs |-> NoStep]
    /\ proc = [i \in Jobs |-> NoProcesses]
    /\ discover = NoDiscovery
    /\ \E t \in DeadlineTimeouts : config = [DefaultConfig EXCEPT !.timeout_ms = t]
    /\ now = 0
    /\ overhead = 0
    /\ timer = [i \in Jobs |-> NoTimer]

NextDeadline ==
    \/ Next
    \/ Tick

SpecDeadline == InitDeadline /\ [][NextDeadline]_vars

(* A batch whose browsers may fail to close. *)
InitTeardown ==
    /\ \E n \in 1..MaxTargets : targets = SubSeq(Hosts, 1, n)
    /\ concurrency \in 1..MaxConcurrency
    /\ env = TeardownEnv
    /\ pc = [i \in Jobs |-> "pending"]
    /\ sem_value = concurrency
    /\ waiters = <<>>
    /\ attempt = [i \in Jobs |-> NoAttempts]
    /\ accepted = [i \in Jobs |-> {}]
    /\ loc = [i \in Jobs |-> NoLocals]
    /\ metadata = [i \in Jobs |-> NoMetadata]
    /\ error = [i \in Jobs |-> "None"]
    /\ exit = [i \in Jobs |-> "none"]
    /\ results = [i \in Jobs |-> "pending"]
    /\ batch = "gather"
    /\ cancelled_at = [i \in Jobs |-> "none"]
    /\ processed = <<>>
    /\ last = [i \in Jobs |-> NoStep]
    /\ proc = [i \in Jobs |-> NoProcesses]
    /\ discover = NoDiscovery
    /\ config = DefaultConfig
    /\ now = 0
    /\ overhead = 0
    /\ timer = [i \in Jobs |-> NoTimer]

SpecTeardown == InitTeardown /\ [][Next]_vars

(* try_urls on its own: one job that holds its slot and its page and is    *)
(* about to navigate, with every kind of goto result.                      *)
InitTryUrls ==
    /\ targets = SubSeq(Hosts, 1, 1)
    /\ concurrency = 1
    /\ env = TryUrlsEnv
    /\ pc = [i \in Jobs |-> "https_goto"]
    /\ sem_value = 0
    /\ waiters = <<>>
    /\ attempt = [i \in Jobs |-> NoAttempts]
    /\ accepted = [i \in Jobs |-> {}]
    /\ loc = [i \in Jobs |-> NoLocals]
    /\ metadata = [i \in Jobs |-> NoMetadata]
    /\ error = [i \in Jobs |-> "None"]
    /\ exit = [i \in Jobs |-> "none"]
    /\ results = [i \in Jobs |-> "pending"]
    /\ batch = "gather"
    /\ cancelled_at = [i \in Jobs |-> "none"]
    /\ processed = <<>>
    /\ last = [i \in Jobs |-> NoStep]
    /\ proc = [i \in Jobs |-> PageOpened(Launched(Started(NoProcesses)))]
    /\ discover = NoDiscovery
    /\ config = DefaultConfig
    /\ now = 0
    /\ overhead = 0
    /\ timer = [i \in Jobs |-> NoTimer]

NextTryUrls ==
    \/ \E i \in Jobs : Goto(i)
    \/ \E i \in Jobs : Idle(i)

SpecTryUrls == InitTryUrls /\ [][NextTryUrls]_vars

----------------------------------------------------------------------------
(* test_domain_resolution (lines 272-341).  test_single_target enters the  *)
(* semaphore, the BrowserManager and create_page as a screenshot job does  *)
(* (lines 277-279) and calls try_urls (line 283); the position "title" of  *)
(* a job is the return of try_urls to its caller.                          *)

ResolutionEnv ==
    [goto  |-> {Response(200), Response(404), GotoTimeout},
     idle  |-> {"ok", "error"},
     title |-> {"ok"},
     shot  |-> {"ok"},
     fail  |-> {"page_close", "browser_close"},
     timed |-> FALSE]

(* Line 286: (200 <= status_code < 400) or status_code in (401, 403). *)
Resolves(status) ==
    \/ (200 <= status /\ status < 400)
    \/ status \in {401, 403}

(* Lines 283-295: the status try_urls returned decides between returning   *)
(* the target as it is and marking it DOMAIN_RESOLUTION_FAILED.            *)
TestSingleTarget(i) ==
    /\ pc[i] = "title"
    /\ error' = [error EXCEPT ![i] =
                   IF Resolves(loc[i].status_code)
                   THEN @ ELSE "DOMAIN_RESOLUTION_FAILED"]
    /\ pc' = [pc EXCEPT ![i] = "page_close"]
    /\ exit' = [exit EXCEPT ![i] = "return"]
    /\ loc' = [loc EXCEPT ![i] = NoLocals]
    /\ UNCHANGED <<targets, concurrency, env, discover, config, now, overhead,
                   timer, sem_value, waiters, attempt, accepted, metadata, results,
                   batch, cancelled_at, processed, last, proc>>

(* Lines 310-314: the finally closes the page and ignores an Exception of  *)
(* page.close().                                                           *)
TestPageClose(i) ==
    /\ pc[i] = "page_close"
    /\ pc' = [pc EXCEPT ![i] = "browser_close"]
    /\ \/ proc' = [proc EXCEPT ![i] = PageClosed(@)]
       \/ /\ "page_close" \in env.fail
          /\ proc' = proc
    /\ UNCHANGED <<targets, concurrency, env, discover, config, now, overhead,
                   timer, sem_value, waiters, attempt, accepted, loc, metadata, error,
                   exit, results, batch, cancelled_at, processed, last>>

(* Lines 336 and 341: the targets without an error, in the order of the    *)
(* processed list, from index k on.                                        *)
RECURSIVE ResolvingFrom(_, _)
ResolvingFrom(k, e) ==
    IF k > Len(targets) THEN <<>>
    ELSE IF e[k] = "None"
         THEN <<[kind |-> "Target", index |-> k]>> \o ResolvingFrom(k + 1, e)
         ELSE ResolvingFrom(k + 1, e)

(* Lines 320-341: the gathered results.  An Exception marks its target     *)
(* UNEXPECTED_ERROR; a CancelledError is no Exception, it is appended in   *)
(* the target's place and the test `not target.error` of line 336 raises   *)
(* AttributeError on it.                                                   *)
Filter ==
    /\ batch = "gather"
    /\ AllDone
    /\ error' = [i \in Jobs |->
                   IF results[i] = "exception" THEN "UNEXPECTED_ERROR" ELSE error[i]]
    /\ IF \E i \in Jobs : results[i] = "cancelled"
       THEN /\ batch' = "raised"
            /\ processed' = processed
       ELSE /\ batch' = "returned"
            /\ processed' = ResolvingFrom(1, error')
    /\ UNCHANGED <<targets, concurrency, env, discover, config, now, overhead,
                   timer, pc, sem_value, waiters, attempt, accepted, loc, metadata,
                   exit, results, cancelled_at, last, proc>>

InitTestResolution ==
    /\ \E n \in 0..MaxTargets : targets = SubSeq(Hosts, 1, n)
    /\ concurrency \in 1..MaxConcurrency
    /\ env = ResolutionEnv
    /\ pc = [i \in Jobs |-> "pending"]
    /\ sem_value = concurrency
    /\ waiters = <<>>
    /\ attempt = [i \in Jobs |-> NoAttempts]
    /\ accepted = [i \in Jobs |-> {}]
    /\ loc = [i \in Jobs |-> NoLocals]
    /\ metadata = [i \in Jobs |-> NoMetadata]
    /\ error = [i \in Jobs |-> "None"]
    /\ exit = [i \in Jobs |-> "none"]
    /\ results = [i \in Jobs |-> "pending"]
    /\ batch = "gather"
    /\ cancelled_at = [i \in Jobs |-> "none"]
    /\ processed = <<>>
    /\ last = [i \in Jobs |-> NoStep]
    /\ proc = [i \in Jobs |-> NoProcesses]
    /\ discover = NoDiscovery
    /\ config = DefaultConfig
    /\ now = 0
    /\ overhead = 0
    /\ timer = [i \in Jobs |-> NoTimer]

NextTestResolution ==
    \/ \E i \in Jobs : Start(i)
    \/ \E i \in Jobs : PwStart(i)
    \/ \E i \in Jobs : Launch(i)
    \/ \E i \in Jobs : CreatePage(i)
    \/ \E i \in Jobs : PageSetup(i)
    \/ \E i \in Jobs : Goto(i)
    \/ \E i \in Jobs : Idle(i)
    \/ \E i \in Jobs : TestSingleTarget(i)
    \/ \E i \in Jobs : TestPageClose(i)
    \/ \E i \in Jobs : BrowserClose(i)
    \/ \E i \in Jobs : PwStop(i)
    \/ Filter

SpecTestResolution == InitTestResolution /\ [][NextTestResolution]_vars

----------------------------------------------------------------------------
(* The admission gate from its creation (line 201), for the values of      *)
(* config.concurrency that AppConfig.from_cli lets through: it applies the *)
(* command line value with model_copy(update=...), which does not run the  *)
(* ge=1 validator of the field (config.py, lines 33 and 266-281).          *)

GateRequests == (0 - 1)..MaxConcurrency

InitGate ==
    /\ targets = SubSeq(Hosts, 1, 1)
    /\ concurrency \in GateRequests
    /\ env = SchedulerEnv
    /\ pc = [i \in Jobs |-> "pending"]
    /\ sem_value = 0
    /\ waiters = <<>>
    /\ attempt = [i \in Jobs |-> NoAttempts]
    /\ accepted = [i \in Jobs |-> {}]
    /\ loc = [i \in Jobs |-> NoLocals]
    /\ metadata = [i \in Jobs |-> NoMetadata]
    /\ error = [i \in Jobs |-> "None"]
    /\ exit = [i \in Jobs |-> "none"]
    /\ results = [i \in Jobs |-> "pending"]
    /\ batch = "new"
    /\ cancelled_at = [i \in Jobs |-> "none"]
    /\ processed = <<>>
    /\ last = [i \in Jobs |-> NoStep]
    /\ proc = [i \in Jobs |-> NoProcesses]
    /\ discover = NoDiscovery
    /\ config = DefaultConfig
    /\ now = 0
    /\ overhead = 0
    /\ timer = [i \in Jobs |-> NoTimer]

(* asyncio.Semaphore(value): a negative value raises ValueError, any other *)
(* becomes the number of free slots as it is.                              *)
SemaphoreValue(c) == c

(* Line 201: semaphore = asyncio.Semaphore(config.concurrency). *)
CreateSemaphore ==
    /\ batch = "new"
    /\ IF SemaphoreValue(concurrency) < 0
       THEN /\ batch' = "raised"
            /\ sem_value' = sem_value
       ELSE /\ batch' = "gather"
            /\ sem_value' = SemaphoreValue(concurrency)
    /\ UNCHANGED <<targets, concurrency, env, discover, config, now, overhead,
                   timer, pc, waiters, attempt,
                   accepted, loc, metadata, error, exit, results, cancelled_at,
                   processed, last, proc>>

NextGate ==
    \/ CreateSemaphore
    \/ Next

SpecGate == InitGate /\ [][NextGate]_vars

----------------------------------------------------------------------------
(* resolve_targets_from_hosts (discover.py, lines 97-117).  A host is a    *)
(* string, modelled as a sequence of characters.                           *)

Upper == {"A", "B"}

(* str.lower() on one character. *)
Lower(c) == CASE c = "A" -> "a" [] c = "B" -> "b" [] OTHER -> c

LowerStr(str) == [k \in 1..Len(str) |-> Lower(str[k])]

IsSpace(c) == c = " "

RECURSIVE LStrip(_)
LStrip(str) ==
    IF str # <<>> /\ IsSpace(Head(str)) THEN LStrip(Tail(str)) ELSE str

RECURSIVE RStrip(_)
RStrip(str) ==
    IF str # <<>> /\ IsSpace(str[Len(str)])
    THEN RStrip(SubSeq(str, 1, Len(str) - 1))
    ELSE str

(* str.strip() *)
Strip(str) == LStrip(RStrip(str))

HasDot(str) == \E k \in 1..Len(str) : str[k] = "."

HostCleanKeepsCase(host) == Strip(host)

(* _target_from_host, line 77: host_clean = (host or "").strip().lower();  *)
(* Target.validate_host (models.py, lines 56-62) returns                   *)
(* v.lower().strip() of it, which is the same string.                      *)
HostClean(host) == Strip(LowerStr(LowerStr(Strip(host))))

(* _target_from_host, lines 78-82: INVALID_HOST. *)
InvalidHost(host) == HostClean(host) = <<>> \/ ~HasDot(HostClean(host))

(* Lines 102-115: the loop over the input, from index k on, with the       *)
(* targets appended so far (`seen` is the set of their hosts).             *)
RECURSIVE ResolveFrom(_, _, _)
ResolveFrom(hosts, k, found) ==
    IF k > Len(hosts)
    THEN IF found = <<>>
         THEN [state |-> "NO_HOSTS", targets |-> <<>>]
         ELSE [state |-> "returned", targets |-> found]
    ELSE IF hosts[k] = <<>>
         THEN ResolveFrom(hosts, k + 1, found)
         ELSE IF InvalidHost(hosts[k])
              THEN [state |-> "INVALID_HOST", targets |-> <<>>]
              ELSE IF \E q \in 1..Len(found) : found[q] = HostClean(hosts[k])
                   THEN ResolveFrom(hosts, k + 1, found)
                   ELSE ResolveFrom(hosts, k + 1,
                                    Append(found, HostClean(hosts[k])))

(* The host strings of the inputs: two spellings of a.b besides a.b        *)
(* itself, another host, the empty string, and two invalid entries.        *)
RawHosts ==
    { <<"a", ".", "b">>, <<"A", ".", "B">>, <<" ", "a", ".", "b", " ">>,
      <<"b", ".", "a">>, <<>>, <<"a", "b">>, <<" ">> }

RECURSIVE SeqsUpTo(_, _)
SeqsUpTo(S, n) ==
    IF n = 0 THEN {<<>>}
    ELSE LET shorter == SeqsUpTo(S, n - 1)
         IN  shorter \cup {Append(q, x) : q \in shorter, x \in S}

InitResolve ==
    /\ targets = <<>>
    /\ concurrency = 1
    /\ env = SchedulerEnv
    /\ pc = [i \in Jobs |-> "pending"]
    /\ sem_value = concurrency
    /\ waiters = <<>>
    /\ attempt = [i \in Jobs |-> NoAttempts]
    /\ accepted = [i \in Jobs |-> {}]
    /\ loc = [i \in Jobs |-> NoLocals]
    /\ metadata = [i \in Jobs |-> NoMetadata]
    /\ error = [i \in Jobs |-> "None"]
    /\ exit = [i \in Jobs |-> "none"]
    /\ results = [i \in Jobs |-> "pending"]
    /\ batch = "gather"
    /\ cancelled_at = [i \in Jobs |-> "none"]
    /\ processed = <<>>
    /\ last = [i \in Jobs |-> NoStep]
    /\ proc = [i \in Jobs |-> NoProcesses]
    /\ \E hosts \in SeqsUpTo(RawHosts, MaxHosts) :
          discover = [hosts |-> hosts, state |-> "called", targets |-> <<>>]
    /\ config = DefaultConfig
    /\ now = 0
    /\ overhead = 0
    /\ timer = [i \in Jobs |-> NoTimer]

(* One call of resolve_targets_from_hosts. *)
ResolveTargetsFromHosts ==
    /\ discover.state = "called"
    /\ LET r == ResolveFrom(discover.hosts, 1, <<>>)
       IN  discover' = [discover EXCEPT !.state = r.state,
                                        !.targets = r.targets]
    /\ UNCHANGED <<targets, concurrency, env, pc, sem_value, waiters, attempt,
                   accepted, loc, metadata, error, exit, results, batch,
                   cancelled_at, processed, last, proc, config, now, overhead,
                   timer>>

NextResolve == ResolveTargetsFromHosts

SpecResolve == InitResolve /\ [][NextResolve]_vars

----------------------------------------------------------------------------
(* AppConfig.apply_scan_profile_defaults, from_env and from_cli            *)
(* (config.py, lines 109-295)                                              *)

Profiles == {"fast", "balanced", "full"}

(* The fields apply_scan_profile_defaults may assign. *)
ProfileFields == {"dry_run", "wappalyzer_enabled", "wappalyzer_scan_type",
                  "wappalyzer_threads"}

(* The thread counts of the configurations explored: the bounds of the     *)
(* field (ge=1, le=20), its default and the value the full profile raises  *)
(* it to.                                                                  *)
ThreadValues == {1, 3, 5, 20}

Max(a, b) == IF a >= b THEN a ELSE b

Min(a, b) == IF a <= b THEN a ELSE b

(* clamp_threads (lines 100-107), run on every assignment                  *)
(* (validate_assignment, line 303).                                        *)
ClampThreads(v) == Max(1, Min(20, v))

(* Lines 109-110: the value is the class default and the field was not     *)
(* recorded as explicit.                                                   *)
FieldIsDefault(cfg, f) ==
    /\ cfg[f] = DefaultConfig[f]
    /\ f \notin cfg.explicit_fields

(* Lines 112-142.  The test of wappalyzer_scan_type in the full branch     *)
(* (136-140) does not go through _field_is_default.                        *)
ApplyScanProfileDefaults(cfg) ==
    LET profile == cfg.scan_profile IN
    [cfg EXCEPT
       !.dry_run = IF FieldIsDefault(cfg, "dry_run")
                   THEN profile = "fast" ELSE @,
       !.wappalyzer_enabled = IF FieldIsDefault(cfg, "wappalyzer_enabled")
                              THEN profile = "full" ELSE @,
       !.wappalyzer_scan_type =
           IF profile = "full"
           THEN IF @ \in {"balanced", DefaultConfig.wappalyzer_scan_type}
                THEN "full" ELSE @
           ELSE IF FieldIsDefault(cfg, "wappalyzer_scan_type")
                THEN profile ELSE @,
       !.wappalyzer_threads =
           IF profile = "full" /\ FieldIsDefault(cfg, "wappalyzer_threads")
           THEN ClampThreads(Max(@, 5)) ELSE @]

(* What from_env builds at line 261-262: the constructor call with the recorded      *)
(* fields, every other field at its default, and the recorded names in     *)
(* _explicit_fields.                                                       *)
Constructed ==
    {cfg \in {[DefaultConfig EXCEPT
                  !.scan_profile = p, !.dry_run = d,
                  !.wappalyzer_enabled = e, !.wappalyzer_scan_type = t,
                  !.wappalyzer_threads = n, !.explicit_fields = x] :
                p \in Profiles, d \in BOOLEAN, e \in BOOLEAN, t \in Profiles,
                n \in ThreadValues, x \in SUBSET ProfileFields} :
        \A f \in ProfileFields \ cfg.explicit_fields : cfg[f] = DefaultConfig[f]}

InitConfig ==
    /\ targets = <<>>
    /\ concurrency = 1
    /\ env = SchedulerEnv
    /\ pc = [i \in Jobs |-> "pending"]
    /\ sem_value = concurrency
    /\ waiters = <<>>
    /\ attempt = [i \in Jobs |-> NoAttempts]
    /\ accepted = [i \in Jobs |-> {}]
    /\ loc = [i \in Jobs |-> NoLocals]
    /\ metadata = [i \in Jobs |-> NoMetadata]
    /\ error = [i \in Jobs |-> "None"]
    /\ exit = [i \in Jobs |-> "none"]
    /\ results = [i \in Jobs |-> "pending"]
    /\ batch = "gather"
    /\ cancelled_at = [i \in Jobs |-> "none"]
    /\ processed = <<>>
    /\ last = [i \in Jobs |-> NoStep]
    /\ proc = [i \in Jobs |-> NoProcesses]
    /\ discover = NoDiscovery
    /\ config \in Constructed
    /\ now = 0
    /\ overhead = 0
    /\ timer = [i \in Jobs |-> NoTimer]

(* from_env line 263 and from_cli line 293:                                *)
(* config.apply_scan_profile_defaults().                                   *)
ApplyDefaults ==
    /\ config.stage \in {"constructed", "updated"}
    /\ config' = [ApplyScanProfileDefaults(config) EXCEPT
                    !.stage = IF config.stage = "constructed"
                              THEN "from_env" ELSE "from_cli",
                    !.applied = Append(@, config.scan_profile)]
    /\ UNCHANGED <<targets, concurrency, env, discover, pc, sem_value, waiters,
                   attempt, accepted, loc, metadata, error, exit, results,
                   batch, cancelled_at, processed, last, proc, now, overhead, timer>>

(* from_cli, lines 271-285, called with scan_profile = p ("None": the      *)
(* keyword is not given): the key is added to _explicit_fields and the     *)
(* value is put in place by model_copy(update=...).                        *)
FromCliUpdate ==
    /\ config.stage = "from_env"
    /\ \E p \in Profiles \cup {"None"} :
          config' = IF p = "None"
                    THEN [config EXCEPT !.stage = "updated"]
                    ELSE [config EXCEPT
                            !.stage = "updated",
                            !.scan_profile = p,
                            !.explicit_fields = @ \cup {"scan_profile"}]
    /\ UNCHANGED <<targets, concurrency, env, discover, pc, sem_value, waiters,
                   attempt, accepted, loc, metadata, error, exit, results,
                   batch, cancelled_at, processed, last, proc, now, overhead, timer>>

NextConfig ==
    \/ ApplyDefaults
    \/ FromCliUpdate

SpecConfig == InitConfig /\ [][NextConfig]_vars

----------------------------------------------------------------------------
(* Properties *)

Holders == {i \in Jobs : pc[i] \in HoldingPcs}

IsTarget(item) == item.kind = "Target"

HasMetadata(i) == metadata[i].screenshot_path # "None"

HasError(i) == error[i] # "None"

Finished == batch \in {"returned", "raised"}

(* C1: when screenshot_many returns, the returned list is as long as the   *)
(* input and the element at each index is a target with the host of the    *)
(* input target at that index.                                             *)
C1_SameLengthSameHosts ==
    batch = "returned" =>
        /\ Len(processed) = Len(targets)
        /\ \A i \in 1..Len(processed) :
              /\ IsTarget(processed[i])
              /\ targets[processed[i].index] = targets[i]

(* C2: every target of the returned list has exactly one of screenshot     *)
(* metadata and an error.                                                  *)
C2_ExactlyOneOutcome ==
    batch = "returned" =>
        \A k \in 1..Len(processed) :
            IsTarget(processed[k]) =>
                (HasMetadata(processed[k].index) <=> ~HasError(processed[k].index))

(* C3: at most `concurrency` jobs are between acquiring and releasing the  *)
(* semaphore, in every state, also while jobs time out or are cancelled.   *)
C3_GateBound == Cardinality(Holders) <= concurrency

C3_Witness ==
    /\ Len(targets) > concurrency
    /\ Cardinality(Holders) = concurrency
    /\ \E i \in Jobs : pc[i] = "waiting"
    /\ \E j \in Holders : error[j] = "SCREENSHOT_TIMEOUT"

(* C4: after the overall deadline expired with jobs unfinished,            *)
(* screenshot_many returns a list in which exactly the targets of those    *)
(* jobs carry OVERALL_TIMEOUT.                                             *)
C4_DeadlineBackfill ==
    (Finished /\ \E i \in Jobs : cancelled_at[i] # "none") =>
        /\ batch = "returned"
        /\ Len(processed) = Len(targets)
        /\ \A i \in Jobs :
              (cancelled_at[i] # "none") <=> (error[i] = "OVERALL_TIMEOUT")

(* C5: screenshot_many never raises, and every element of what it returns  *)
(* is a target (errors are attached to targets, not delivered in their     *)
(* place).                                                                 *)
C5_NeverRaises ==
    /\ batch # "raised"
    /\ batch = "returned" => \A k \in 1..Len(processed) : IsTarget(processed[k])

(* C6: a target whose navigation did not return within the navigation      *)
(* timeout leaves the capture with error code SCREENSHOT_TIMEOUT.          *)
C6_HangIsScreenshotTimeout ==
    \A i \in Jobs :
        (pc[i] = "page_close" /\ attempt[i].https.kind = "timeout")
            => error[i] = "SCREENSHOT_TIMEOUT"

(* C7: a job cancelled from outside while it was running has marked its    *)
(* target SCREENSHOT_CANCELLED by the time the batch is over.              *)
C7_CancelledIsMarked ==
    Finished =>
        \A i \in Jobs :
            cancelled_at[i] = "running" => error[i] = "SCREENSHOT_CANCELLED"

(* try_urls is over for job i: it returned (the job awaits the title) or   *)
(* an exception left it (the job is in its finally).                       *)
TryUrlsOver(i) == pc[i] \in {"title", "page_close"}

TryUrlsReturned(i, scheme, status) ==
    /\ pc[i] = "title"
    /\ loc[i].final_url = Url(scheme, targets[i])
    /\ loc[i].status_code = status

(* The claims' notion of a working response. *)
IsWorkingResponse(r) ==
    /\ r.kind = "response"
    /\ (r.status < 400 \/ r.status = 401 \/ r.status = 403)

(* C8: http is attempted only if the https attempt gave no working         *)
(* response, and when https fails and http answers 200, try_urls returns   *)
(* (http://host, 200).                                                     *)
C8_HttpFallback ==
    \A i \in Jobs :
        /\ attempt[i].http # Unattempted => ~IsWorkingResponse(attempt[i].https)
        /\ ( /\ TryUrlsOver(i)
             /\ attempt[i].https # Unattempted
             /\ ~IsWorkingResponse(attempt[i].https)
             /\ attempt[i].http = Response(200) )
               => TryUrlsReturned(i, "http", 200)

(* C9: when neither attempt gave a working response, try_urls returns      *)
(* (http://host, 500) and does not raise.                                  *)
C9_SentinelWhenNothingWorks ==
    \A i \in Jobs :
        ( /\ TryUrlsOver(i)
          /\ ~IsWorkingResponse(attempt[i].https)
          /\ ~IsWorkingResponse(attempt[i].http) )
            => TryUrlsReturned(i, "http", 500)

(* C10: a navigation result (a response or None) is accepted exactly when  *)
(* it is a response with status < 400, 401 or 403; every other result      *)
(* sends try_urls on to the next scheme, or to its end after http.         *)
C10_AcceptedIffWorking ==
    \A i \in Jobs :
        /\ \A s \in {"https", "http"} :
              attempt[i][s].kind \in {"response", "none"} =>
                  (s \in accepted[i] <=> IsWorkingResponse(attempt[i][s]))
        /\ ( /\ attempt[i].https.kind \in {"response", "none"}
             /\ ~IsWorkingResponse(attempt[i].https) )
               => (pc[i] = "http_goto" \/ attempt[i].http # Unattempted)
        /\ ( /\ attempt[i].http.kind \in {"response", "none"}
             /\ ~IsWorkingResponse(attempt[i].http) )
               => pc[i] = "title"

C10_Witness ==
    \E i \in Jobs :
        /\ attempt[i].https = Response(400)
        /\ attempt[i].http = Response(403)
        /\ accepted[i] = {"http"}
        /\ pc[i] = "http_idle"

(* C11: once a scheme's response has been accepted, try_urls returns that   *)
(* scheme's URL and status however the network-idle wait ends, and the     *)
(* other scheme is not tried after an accepted https response.             *)
C11_IdleWaitKeepsAccepted ==
    \A i \in Jobs :
        /\ (last[i].step = "idle" /\ accepted[i] = {"https"})
              => TryUrlsReturned(i, "https", attempt[i].https.status)
        /\ (last[i].step = "idle" /\ "http" \in accepted[i])
              => TryUrlsReturned(i, "http", attempt[i].http.status)
        /\ "https" \in accepted[i]
              => (pc[i] # "http_goto" /\ attempt[i].http = Unattempted)

(* C12: recorded metadata never presents the sentinel status 500 with the  *)
(* last attempted URL (http://host) as a captured response.                *)
C12_NoSentinelInMetadata ==
    \A i \in Jobs :
        ~ ( /\ HasMetadata(i)
            /\ metadata[i].status_code = SentinelStatus
            /\ metadata[i].final_url = Url("http", targets[i]) )

(* C13: when the screenshot step exceeds its cap, the target gets          *)
(* SCREENSHOT_CAPTURE_TIMEOUT and no metadata, and screenshot_target       *)
(* returns the target normally.                                            *)
C13_CaptureTimeout ==
    \A i \in Jobs :
        last[i] = StepEnded("screenshot", "timeout") =>
            /\ error[i] = "SCREENSHOT_CAPTURE_TIMEOUT"
            /\ ~HasMetadata(i)
            /\ pc[i] = "page_close"
            /\ exit[i] = "return"

C13_Witness ==
    \E i \in Jobs :
        /\ last[i] = StepEnded("screenshot", "timeout")
        /\ pc[i] = "page_close"
        /\ proc[i].browser = "live"

(* C14: when the title fetch exceeds its cap, the capture goes on to the   *)
(* screenshot with the title "Title timeout" and without an error, and     *)
(* whatever metadata is recorded afterwards while that title is held       *)
(* carries it.                                                             *)
C14_TitleTimeoutPlaceholder ==
    \A i \in Jobs :
        last[i] = StepEnded("title", "timeout") =>
            /\ pc[i] = "screenshot"
            /\ loc[i].title = "Title timeout"
            /\ error[i] = "None"
            /\ exit[i] = "none"

C14_Witness ==
    /\ batch = "returned"
    /\ \E i \in Jobs :
          /\ HasMetadata(i)
          /\ metadata[i].title = "Title timeout"
          /\ error[i] = "None"

(* C15: whatever is raised inside screenshot_target leaves the target with *)
(* SCREENSHOT_FAILED and the function returns the target: nothing          *)
(* propagates to the job's finally.                                        *)
C15_ExceptionsBecomeScreenshotFailed ==
    \A i \in Jobs :
        (pc[i] = "page_close" /\ cancelled_at[i] = "none") =>
            /\ exit[i] = "return"
            /\ last[i].how = "error" => error[i] = "SCREENSHOT_FAILED"

C17_AllProcessesClosed ==
    Finished =>
        \A i \in Jobs : proc[i].driver # "live" /\ proc[i].browser # "live"

(* C18: after the close of the page, a job whose capture gave its target   *)
(* metadata or an error is still returning that target.                    *)
C18_PageCloseKeepsOutcome ==
    \A i \in Jobs :
        ( /\ pc[i] \in {"browser_close", "pw_stop"}
          /\ cancelled_at[i] = "none"
          /\ (HasMetadata(i) \/ HasError(i)) )
            => exit[i] = "return"

(* C19: the slots are accounted for in every state (free slots plus jobs   *)
(* inside the gate make `concurrency`), no job waits while a slot is free, *)
(* and when screenshot_many has finished every slot is free and no job is  *)
(* queued.                                                                 *)
C19_SlotsReleased ==
    /\ sem_value + Cardinality(Holders) = concurrency
    /\ Len(waiters) > 0 => sem_value = 0
    /\ \A i \in Jobs : pc[i] = "waiting" <=> (\E k \in 1..Len(waiters) : waiters[k] = i)
    /\ Finished => (sem_value = concurrency /\ waiters = <<>> /\ Holders = {})

C19_Witness ==
    /\ batch = "raised"
    /\ Len(targets) > concurrency
    /\ sem_value = concurrency
    /\ \E i \in Jobs : error[i] = "SCREENSHOT_TIMEOUT"
    /\ \E j \in Jobs : cancelled_at[j] = "waiting"

(* C20: with an empty input list screenshot_many neither raises nor waits  *)
(* for anything: it returns the empty list, and no driver or browser       *)
(* exists in the run.                                                      *)
C20_EmptyInput ==
    Len(targets) = 0 =>
        /\ batch \in {"gather", "returned"}
        /\ batch = "gather" => ENABLED Aggregate
        /\ processed = <<>>
        /\ DOMAIN proc = {}

C20_Witness ==
    /\ Len(targets) = 0
    /\ batch = "returned"
    /\ processed = <<>>

(* C21: once a target has metadata or an error, no later step writes its   *)
(* metadata or its error again.                                            *)
C21_OutcomeWrittenOnce ==
    [][\A i \in Jobs :
          (HasMetadata(i) \/ HasError(i)) =>
              (metadata'[i] = metadata[i] /\ error'[i] = error[i])]_vars

JobChanged(j) ==
    \/ pc'[j] # pc[j]
    \/ attempt'[j] # attempt[j]
    \/ accepted'[j] # accepted[j]
    \/ loc'[j] # loc[j]
    \/ metadata'[j] # metadata[j]
    \/ error'[j] # error[j]
    \/ exit'[j] # exit[j]
    \/ results'[j] # results[j]
    \/ cancelled_at'[j] # cancelled_at[j]
    \/ last'[j] # last[j]
    \/ proc'[j] # proc[j]

JobAdmitted(j) ==
    /\ pc[j] = "waiting"
    /\ pc'[j] = "pw_start"
    /\ attempt'[j] = attempt[j]
    /\ accepted'[j] = accepted[j]
    /\ loc'[j] = loc[j]
    /\ metadata'[j] = metadata[j]
    /\ error'[j] = error[j]
    /\ exit'[j] = exit[j]
    /\ results'[j] = results[j]
    /\ cancelled_at'[j] = cancelled_at[j]
    /\ last'[j] = last[j]
    /\ proc'[j] = proc[j]

(* C22: while the gather is running, a step of one job (its timeout, its   *)
(* error and its own cancellation included) changes nothing of any other   *)
(* job, except that it may hand its slot to the first waiter.              *)
C22_NoSiblingEffect ==
    [][(batch = "gather" /\ batch' = "gather") =>
          Cardinality({j \in Jobs : JobChanged(j) /\ ~JobAdmitted(j)}) <= 1]_vars

C22_Witness ==
    /\ Len(targets) > concurrency
    /\ \E i, j \in Jobs :
          /\ i < j
          /\ results[i] = "cancelled"
          /\ cancelled_at[i] = "none"
          /\ results[j] = "target"
          /\ HasMetadata(j)
          /\ ~HasError(j)

(* C23: for a returned list of targets, the success count and the error    *)
(* count add up to the number of targets.                                  *)
C23_CountsPartition ==
    (batch = "returned" /\ \A k \in 1..Len(processed) : IsTarget(processed[k]))
        => success_count + error_count = Len(targets)

(* The capacity the claim gives the gate: max(concurrency, 1). *)
GateOfAtLeastOne(c) == IF c < 1 THEN 1 ELSE c

(* C24: once created, the gate has max(concurrency, 1) slots (free ones    *)
(* plus those held), and its creation does not raise.                      *)
C24_GateCapacity ==
    batch # "new" =>
        sem_value + Cardinality(Holders) = GateOfAtLeastOne(concurrency)

IsClean(str) ==
    /\ \A k \in 1..Len(str) : str[k] \notin Upper
    /\ str # <<>> => (~IsSpace(str[1]) /\ ~IsSpace(str[Len(str)]))

SameHost(x, y) == LowerStr(Strip(x)) = LowerStr(Strip(y))

FirstOccurrence(hosts, t) ==
    CHOOSE k \in 1..Len(hosts) :
        /\ hosts[k] # <<>>
        /\ SameHost(hosts[k], t)
        /\ \A q \in 1..(k - 1) : hosts[q] = <<>> \/ ~SameHost(hosts[q], t)

(* C25: the returned hosts are lowercase without surrounding whitespace,   *)
(* pairwise distinct, one for each distinct non-empty input up to case and *)
(* surrounding whitespace, in the order of first occurrence.               *)
C25_ResolvedHosts ==
    discover.state = "returned" =>
        LET hosts == discover.hosts
            found == discover.targets
        IN  /\ \A k \in 1..Len(found) : IsClean(found[k])
            /\ \A p, q \in 1..Len(found) : found[p] = found[q] => p = q
            /\ \A k \in 1..Len(hosts) :
                  hosts[k] # <<>> =>
                      \E q \in 1..Len(found) : SameHost(hosts[k], found[q])
            /\ \A q \in 1..Len(found) :
                  \E k \in 1..Len(hosts) :
                      hosts[k] # <<>> /\ SameHost(hosts[k], found[q])
            /\ \A p, q \in 1..Len(found) :
                  p < q => FirstOccurrence(hosts, found[p])
                              < FirstOccurrence(hosts, found[q])

C25_Witness ==
    /\ discover.state = "returned"
    /\ discover.hosts = << <<"A", ".", "B">>, <<"b", ".", "a">>,
                           <<" ", "a", ".", "b", " ">> >>
    /\ discover.targets = << <<"a", ".", "b">>, <<"b", ".", "a">> >>

(* Positions of a job that has acquired its slot and not yet left          *)
(* screenshot_target.                                                      *)
StartedPcs == {"pw_start", "launch", "create_page", "page_setup"} \cup CapturePcs

Rank(p) ==
    CASE p \in {"pending", "waiting"} -> 0
      [] p \in {"pw_start", "launch", "create_page", "page_setup"} -> 1
      [] p \in CapturePcs -> 2
      [] p \in {"page_close", "browser_close", "pw_stop"} -> 3
      [] OTHER -> 4

(* The terminal states job i shows: on its target and in its gather slot.  *)
Terminals(i) ==
    {t \in {"SUCCEEDED", "TIMED_OUT", "CANCELLED", "ERRORED"} :
        \/ t = "SUCCEEDED" /\ HasMetadata(i)
        \/ t = "TIMED_OUT" /\ error[i] \in {"SCREENSHOT_TIMEOUT",
                                            "SCREENSHOT_CAPTURE_TIMEOUT",
                                            "OVERALL_TIMEOUT"}
        \/ t = "CANCELLED" /\ (results[i] = "cancelled"
                                 \/ error[i] = "SCREENSHOT_CANCELLED")
        \/ t = "ERRORED" /\ (results[i] = "exception"
                               \/ error[i] \in {"SCREENSHOT_FAILED",
                                                "SCREENSHOT_ERROR",
                                                "PROCESSING_ERROR"})}

(* C27: a job only moves forward through its phases, and once it shows a   *)
(* terminal state it never shows another.                                  *)
C27_ForwardOneTerminal ==
    [][\A i \in Jobs :
          /\ Rank(pc'[i]) >= Rank(pc[i])
          /\ Terminals(i) # {} => Terminals(i)' = Terminals(i)]_vars

(* C28: when a job's browser has been closed, and when the job is over,    *)
(* no page created for it is still open.                                   *)
C28_PageClosedFirst ==
    \A i \in Jobs :
        (proc[i].browser = "closed" \/ pc[i] = "done") => proc[i].page # "open"

C30_AllTerminatedAtDeadline ==
    (Finished /\ \E i \in Jobs : cancelled_at[i] # "none") =>
        /\ AllDone
        /\ sem_value = concurrency
        /\ \A i \in Jobs :
              /\ proc[i].browser # "live"
              /\ proc[i].page = "open" => proc[i].browser = "closed"


ModeAsked(cfg) == IF cfg.headless THEN "headless" ELSE "headed"

(* C33: the browser is launched in the mode the configuration asks for:    *)
(* headed when config.headless is false, headless when it is true.         *)
C33_LaunchModeFollowsConfig ==
    \A i \in Jobs :
        proc[i].browser = "live" => proc[i].mode = ModeAsked(config)

(* C34: apply_scan_profile_defaults changes only fields that were not set  *)
(* explicitly: under every profile, every field recorded as explicit has   *)
(* the same value before and after the call.                               *)
C34_ExplicitFieldsKept ==
    [][config'.applied # config.applied =>
          \A f \in config.explicit_fields \cap ProfileFields :
              config'[f] = config[f]]_vars

(* The fields a profile decides. *)
Derived(cfg) == [f \in ProfileFields |-> cfg[f]]

(* cls(scan_profile = p) followed by apply_scan_profile_defaults(). *)
FreshWith(p) ==
    ApplyScanProfileDefaults([DefaultConfig EXCEPT !.scan_profile = p])

(* C40: with no explicit fields, after the defaults of one profile were    *)
(* applied and then those of the profile switched to, the profile-derived  *)
(* fields are those of a fresh configuration under the last profile.       *)
C40_LastProfileDecides ==
    ( /\ config.stage = "from_cli"
      /\ config.explicit_fields \cap ProfileFields = {} )
        => Derived(config) = Derived(FreshWith(config.scan_profile))

(* C39: no target ever carries the error code SCREENSHOT_ERROR: every      *)
(* exception of the capture is turned into SCREENSHOT_FAILED inside        *)
(* screenshot_target, before the handler of the per-job wrapper.           *)
C39_NoScreenshotError == \A i \in Jobs : error[i] # "SCREENSHOT_ERROR"

C39_Witness ==
    /\ batch = "returned"
    /\ \E i \in Jobs :
          /\ error[i] = "SCREENSHOT_FAILED"
          /\ results[i] = "target"
          /\ ~HasMetadata(i)

(* C37: when the https attempt has used up the whole navigation timeout    *)
(* (and http would then need more than 10 s), the job leaves the capture   *)
(* with SCREENSHOT_TIMEOUT and without metadata.  How slow http is does    *)
(* not show in the state of a job whose https attempt timed out: the       *)
(* statement is about every such job.                                      *)
C37_SlowFallbackIsScreenshotTimeout ==
    \A i \in Jobs :
        ( /\ pc[i] = "page_close"
          /\ last[i] = StepEnded("goto", "timeout")
          /\ attempt[i].https = GotoTimeout )
            => /\ error[i] = "SCREENSHOT_TIMEOUT"
               /\ ~HasMetadata(i)

LiveBrowsers == {i \in Jobs : proc[i].browser = "live"}

(* C35: at any moment of screenshot_many the number of live browser        *)
(* processes is at most the configured concurrency (a browser is launched  *)
(* by a job that holds a slot and closed before the job releases it).      *)
C35_LiveBrowsersWithinGate == Cardinality(LiveBrowsers) <= concurrency

(* The targets for which a scheme gave a response that passed line 117 of  *)
(* try_urls, in input order, from index k on.                              *)
RECURSIVE WorkingFrom(_)
WorkingFrom(k) ==
    IF k > Len(targets) THEN <<>>
    ELSE IF accepted[k] # {}
         THEN <<[kind |-> "Target", index |-> k]>> \o WorkingFrom(k + 1)
         ELSE WorkingFrom(k + 1)

(* C32: test_domain_resolution returns exactly the input targets for which *)
(* try_urls accepted a working response, in input order, none of them with *)
(* an error.                                                               *)
C32_KeptIffWorking ==
    batch = "returned" =>
        /\ processed = WorkingFrom(1)
        /\ \A k \in 1..Len(processed) : ~HasError(processed[k].index)

----------------------------------------------------------------------------
(* The per-job timeout against the overall deadline, one job at a time.    *)

TimedOutJobs == {i \in Jobs : error[i] = "SCREENSHOT_TIMEOUT"}

(* Every job that has ended ran until its per-job timeout. *)
AllRanToTimeout == \A i \in Jobs : error[i] \in {"None", "SCREENSHOT_TIMEOUT"}

DeadlineExpired == batch \in {"cancelling", "raised"}

(* C36 as stated: with concurrency 1 and every job running until its      *)
(* per-job timeout, a batch of at most 5 targets finishes before the       *)
(* overall deadline, and in a batch of 7 or more the overall deadline      *)
(* expires before the last job finishes.                                   *)
C36_FiveFinishSevenExpire ==
    /\ (Len(targets) <= 5 /\ AllRanToTimeout) => ~DeadlineExpired
    /\ Len(targets) >= 7 => TimedOutJobs # Jobs

(* C36, amended: with concurrency 1 and every job running until its        *)
(* per-job timeout, a batch of at most 5 targets finishes before the       *)
(* overall deadline as long as the time its jobs spend launching their     *)
(* browsers, which no per-job timeout counts, stays below the 60 - 10 * N  *)
(* seconds the deadline leaves; in a batch of 7 or more the overall        *)
(* deadline expires before the last job finishes.                          *)
C36_MarginIsSixtyMinusTenPerJob ==
    /\ (Len(targets) <= 5 /\ AllRanToTimeout
          /\ overhead < OverallBufferS - Len(targets) * PerJobBufferS)
          => ~DeadlineExpired
    /\ Len(targets) >= 7 => TimedOutJobs # Jobs

(* Seven targets, no time lost launching: six jobs ran until their per-job *)
(* timeout and the overall deadline expired on the seventh.                *)
C36_Witness ==
    /\ Len(targets) >= 7
    /\ overhead = 0
    /\ batch = "cancelling"
    /\ Cardinality(TimedOutJobs) = 6
    /\ AllRanToTimeout

(* Five targets, every one of them marked by its per-job timeout, and the  *)
(* batch returned before the deadline.                                     *)
C36_FiveFinish ==
    /\ Len(targets) = 5
    /\ batch = "returned"
    /\ TimedOutJobs = Jobs

----------------------------------------------------------------------------
(* What the per-job timeout counts.                                        *)

BeforePagePcs == {"pending", "waiting", "pw_start", "launch", "create_page",
                  "page_setup"}

MarkedNow(i) ==
    /\ error[i] # "SCREENSHOT_TIMEOUT"
    /\ error'[i] = "SCREENSHOT_TIMEOUT"

(* C38: a target is marked SCREENSHOT_TIMEOUT only while its job holds a   *)
(* gate slot and has its page, a full per-job timeout after the page was   *)
(* created, however long the job waited at the gate and launched its       *)
(* browser before; a job waiting at the gate, or on its way to its page,   *)
(* is not marked.                                                          *)
C38_TimeoutCountsFromPage ==
    [][\A i \in Jobs :
         /\ pc'[i] \in BeforePagePcs => error'[i] # "SCREENSHOT_TIMEOUT"
         /\ MarkedNow(i) =>
              /\ pc[i] \in CapturePcs
              /\ \A k \in 1..Len(waiters) : waiters[k] # i
              /\ proc[i].page = "open"
              /\ now - timer[i].page = PerJobTimeoutS(config)]_vars

(* The second job waited at the gate for the whole of the first and then   *)
(* took a tick to launch its browser; it is marked a per-job timeout after *)
(* its page was created, later than two per-job timeouts after the batch   *)
(* began.                                                                  *)
C38_Witness ==
    \E i \in Jobs :
       /\ i >= 2
       /\ pc[i] = "page_close"
       /\ error[i] = "SCREENSHOT_TIMEOUT"
       /\ error[1] = "SCREENSHOT_TIMEOUT"
       /\ timer[i].page > PerJobTimeoutS(config)
       /\ now = timer[i].page + PerJobTimeoutS(config)
       /\ now > 2 * PerJobTimeoutS(config)

=========================================================================
